---- MODULE Spec2Model ----
(***************************************************************************)
(* A model of gaelic-fonts/mark_gaelic.py: the filename filter             *)
(* (should_process_font), the three metadata patches applied to an open    *)
(* font document (_add_irish_name_records,                                 *)
(* _set_os2_latin_extended_additional, _add_gsub_iri_language), the        *)
(* per-file handler mark_font_gaelic and the directory loop                *)
(* process_directory.                                                      *)
(*                                                                         *)
(* A filename is a sequence of one-character strings, so that the string   *)
(* operations of the code (splitext, lower, startswith, sorted) are        *)
(* computed character by character.  A font document is a record of the    *)
(* three tables the code touches; a table that the font does not hold is   *)
(* NoTable, a Python None is None.  A list that may be None in its place   *)
(* (LangSysRecord, FeatureIndex) is the record [list |-> <<...>>], so that *)
(* it can be told from None.                                               *)
(***************************************************************************)
EXTENDS Integers, Sequences, FiniteSets, TLC

(***************************************************************************)
(* Module constants of mark_gaelic.py.                                     *)
(***************************************************************************)
IRISH_LANG_ID == 2108

PLATFORM_WINDOWS == 3

ENCODING_UNICODE_BMP == 1

LANG_ENGLISH_US == 1033

BIT_29_MASK == 536870912

IRI_TAG == "IRI "

NAME_IDS_TO_COPY == {1, 2, 4, 5, 6}

EXCLUDED_PREFIXES == << <<"S", "F", "-", "P", "r", "o">> >>

FONT_EXTENSIONS == << <<".", "o", "t", "f">>, <<".", "w", "o", "f", "f", "2">> >>

\* ReqFeatureIndex of a LangSys that has no required feature (line 150).
NO_REQ_FEATURE == 65535

None == [none |-> TRUE]

NoTable == [absent |-> TRUE]

\* A Python list in a place that may hold None.
List(s) == [list |-> s]

(***************************************************************************)
(* Strings.                                                                *)
(***************************************************************************)
\* Code points of the characters the filenames of the model are made of.
Ord ==
    [c \in {"-", ".", "2", "F", "O", "P", "S", "T", "W",
            "a", "f", "o", "p", "r", "s", "t", "w"} |->
        CASE c = "-" -> 45  [] c = "." -> 46  [] c = "2" -> 50
          [] c = "F" -> 70  [] c = "O" -> 79  [] c = "P" -> 80
          [] c = "S" -> 83  [] c = "T" -> 84  [] c = "W" -> 87
          [] c = "a" -> 97  [] c = "f" -> 102 [] c = "o" -> 111
          [] c = "p" -> 112 [] c = "r" -> 114 [] c = "s" -> 115
          [] c = "t" -> 116 [] c = "w" -> 119]

\* str.lower() on one character.
LowerChar(c) ==
    CASE c = "F" -> "f" [] c = "O" -> "o" [] c = "P" -> "p" [] c = "S" -> "s"
      [] c = "T" -> "t" [] c = "W" -> "w" [] OTHER -> c

\* str.lower()
lower(s) == [k \in 1..Len(s) |-> LowerChar(s[k])]

\* str.startswith(prefix)
startswith(s, prefix) ==
    /\ Len(prefix) <= Len(s)
    /\ SubSeq(s, 1, Len(prefix)) = prefix

\* str.rfind(ch): the last position of ch in s (1-based), 0 when there is none
\* (Python's -1 on 0-based positions).
rfind(s, ch) ==
    LET at == {k \in 1..Len(s) : s[k] = ch}
    IN  IF at = {} THEN 0 ELSE CHOOSE k \in at : \A j \in at : j <= k

\* os.path.splitext(p), the extension part.  The extension starts at the last
\* dot after the last separator, but only when a character other than a dot
\* stands between the separator and that dot (leading dots are skipped).
splitext_ext(p) ==
    LET sepIndex == rfind(p, "/")
        dotIndex == rfind(p, ".")
    IN  IF /\ dotIndex > sepIndex
           /\ \E k \in (sepIndex + 1)..(dotIndex - 1) : p[k] # "."
        THEN SubSeq(p, dotIndex, Len(p))
        ELSE <<>>

\* x in t, for a tuple t.
InTuple(x, t) == \E k \in 1..Len(t) : t[k] = x

\* Python's order on str: code point by code point, a proper prefix first.
RECURSIVE StrLess(_, _)
StrLess(a, b) ==
    IF b = <<>> THEN FALSE
    ELSE IF a = <<>> THEN TRUE
    ELSE IF Ord[Head(a)] # Ord[Head(b)] THEN Ord[Head(a)] < Ord[Head(b)]
    ELSE StrLess(Tail(a), Tail(b))

\* Insertion of a name into a sorted list, before the first greater name.
RECURSIVE Insert(_, _)
Insert(x, l) ==
    IF l = <<>> THEN <<x>>
    ELSE IF StrLess(x, Head(l)) THEN <<x>> \o l
    ELSE <<Head(l)>> \o Insert(x, Tail(l))

RECURSIVE SortFrom(_, _)
SortFrom(l, acc) ==
    IF l = <<>> THEN acc ELSE SortFrom(Tail(l), Insert(Head(l), acc))

\* The list as os.listdir gave it, not sorted.
sorted_not(l) == l

\* sorted(l)
sorted(l) == SortFrom(l, <<>>)

(***************************************************************************)
(* The Font Filter.                                                        *)
(***************************************************************************)
\* should_process_font with the extension compared as it is written, without
\* lower().
should_process_font_cased(filename) ==
    LET ext == splitext_ext(filename)
    IN  IF ~InTuple(ext, FONT_EXTENSIONS) THEN FALSE
        ELSE IF \E k \in 1..Len(EXCLUDED_PREFIXES) :
                    startswith(filename, EXCLUDED_PREFIXES[k]) THEN FALSE
        ELSE TRUE

should_process_font(filename) ==
    LET ext == splitext_ext(filename)
    IN  IF ~InTuple(lower(ext), FONT_EXTENSIONS) THEN FALSE
        ELSE IF \E k \in 1..Len(EXCLUDED_PREFIXES) :
                    startswith(filename, EXCLUDED_PREFIXES[k]) THEN FALSE
        ELSE TRUE

(***************************************************************************)
(* The Metadata Patcher.  A name record is                                 *)
(* [nameID, platformID, platEncID, langID, string], string being the text  *)
(* rec.toUnicode() gives; font["name"].names is a sequence of them.        *)
(***************************************************************************)
\* The positions of the records of names that match the four ids
\* (name_table.getName looks for the first of them).
NameMatches(names, nameID, platformID, platEncID, langID) ==
    {k \in 1..Len(names) :
        /\ names[k].nameID = nameID
        /\ names[k].platformID = platformID
        /\ names[k].platEncID = platEncID
        /\ names[k].langID = langID}

\* name_table.setName(string, nameID, platformID, platEncID, langID): the
\* string of the first record with these ids is replaced; when there is no
\* such record, a new one is appended.
setName(names, string, nameID, platformID, platEncID, langID) ==
    LET at == NameMatches(names, nameID, platformID, platEncID, langID)
    IN  IF at # {}
        THEN LET k == CHOOSE k \in at : \A j \in at : k <= j
             IN  [names EXCEPT ![k].string = string]
        ELSE Append(names, [nameID |-> nameID, platformID |-> platformID,
                            platEncID |-> platEncID, langID |-> langID,
                            string |-> string])

\* existing_irish with the key of every Irish record taken as if the record
\* were a Windows/Unicode-BMP one.
existing_irish_any_platform(names) ==
    {<<names[k].nameID, PLATFORM_WINDOWS, ENCODING_UNICODE_BMP>> :
        k \in {j \in 1..Len(names) : names[j].langID = IRISH_LANG_ID}}

\* existing_irish (lines 77-81)
existing_irish(names) ==
    {<<names[k].nameID, names[k].platformID, names[k].platEncID>> :
        k \in {j \in 1..Len(names) : names[j].langID = IRISH_LANG_ID}}

\* The condition of the comprehension english_records (lines 87-90).
IsEnglishToCopy(rec) ==
    /\ rec.platformID = PLATFORM_WINDOWS
    /\ rec.platEncID = ENCODING_UNICODE_BMP
    /\ rec.langID = LANG_ENGLISH_US
    /\ rec.nameID \in NAME_IDS_TO_COPY

\* english_records (lines 84-91)
english_records(names) == SelectSeq(names, IsEnglishToCopy)

\* The loop without the test of line 95: every English record is copied.
RECURSIVE CopyLoopAlways(_, _, _)
CopyLoopAlways(names, todo, existing) ==
    IF todo = <<>> THEN names
    ELSE LET rec == Head(todo)
         IN  CopyLoopAlways(setName(names, rec.string, rec.nameID,
                                    PLATFORM_WINDOWS, ENCODING_UNICODE_BMP,
                                    IRISH_LANG_ID),
                            Tail(todo), existing)

\* The loop of lines 93-102 over the records todo, with the set existing
\* computed before the loop.
RECURSIVE CopyLoop(_, _, _)
CopyLoop(names, todo, existing) ==
    IF todo = <<>> THEN names
    ELSE LET rec == Head(todo)
             key == <<rec.nameID, rec.platformID, rec.platEncID>>
         IN  IF key \notin existing
             THEN CopyLoop(setName(names, rec.string, rec.nameID,
                                   PLATFORM_WINDOWS, ENCODING_UNICODE_BMP,
                                   IRISH_LANG_ID),
                           Tail(todo), existing)
             ELSE CopyLoop(names, Tail(todo), existing)

\* _add_irish_name_records, on name_table = font["name"]
_add_irish_name_records(name_table) ==
    [name_table EXCEPT
        !.names = CopyLoop(@, english_records(@), existing_irish(@))]

\* a | b, on non-negative integers.
RECURSIVE BitOr(_, _)
BitOr(a, b) ==
    IF a = 0 THEN b
    ELSE IF b = 0 THEN a
    ELSE (IF a % 2 = 1 \/ b % 2 = 1 THEN 1 ELSE 0)
         + 2 * BitOr(a \div 2, b \div 2)

\* The field assigned the mask ("=" for "|=").
_set_os2_assign(os2) ==
    IF os2 # NoTable
    THEN [os2 EXCEPT !.ulUnicodeRange1 = BIT_29_MASK]
    ELSE os2

\* _set_os2_latin_extended_additional, on font["OS/2"] (NoTable when the
\* font holds no OS/2 table).
_set_os2_latin_extended_additional(os2) ==
    IF os2 # NoTable
    THEN [os2 EXCEPT !.ulUnicodeRange1 = BitOr(@, BIT_29_MASK)]
    ELSE os2

\* [lr.LangSysTag for lr in script.LangSysRecord] (line 137)
existing_tags(records) == [k \in 1..Len(records) |-> records[k].LangSysTag]

\* The LangSys with the feature list of the default, and no required feature
\* whatever the default has.
IriLangSysNoReq(dflt) ==
    IF dflt # None
    THEN LET fi == IF dflt.FeatureIndex = None THEN <<>>
                   ELSE dflt.FeatureIndex.list
         IN  [LookupOrder |-> None,
              ReqFeatureIndex |-> NO_REQ_FEATURE,
              FeatureIndex |-> List(fi),
              FeatureCount |-> Len(fi)]
    ELSE [LookupOrder |-> None,
          ReqFeatureIndex |-> NO_REQ_FEATURE,
          FeatureIndex |-> List(<<>>),
          FeatureCount |-> 0]

\* The LangSys of lines 142-152, for a script whose default is dflt.
IriLangSys(dflt) ==
    IF dflt # None
    THEN LET fi == IF dflt.FeatureIndex = None THEN <<>>
                   ELSE dflt.FeatureIndex.list
         IN  [LookupOrder |-> None,
              ReqFeatureIndex |-> dflt.ReqFeatureIndex,
              FeatureIndex |-> List(fi),
              FeatureCount |-> Len(fi)]
    ELSE [LookupOrder |-> None,
          ReqFeatureIndex |-> NO_REQ_FEATURE,
          FeatureIndex |-> List(<<>>),
          FeatureCount |-> 0]

\* Lines 154-159: the record for IRI_TAG is appended to the records of the
\* script (lsr: its LangSysRecord, an empty list in place of None) and
\* LangSysCount is set.
AppendIri(script, lsr) ==
    LET lang_record == [LangSysTag |-> IRI_TAG,
                        LangSys |-> IriLangSys(script.DefaultLangSys)]
        records == Append(lsr, lang_record)
    IN  [script EXCEPT !.LangSysRecord = List(records),
                       !.LangSysCount = Len(records)]

\* The loop without the test of lines 137-139: the record is added to the
\* first "latn" script whether or not it holds IRI_TAG.
RECURSIVE ScriptLoopNoCheck(_, _)
ScriptLoopNoCheck(recs, k) ==
    IF k > Len(recs) THEN recs
    ELSE IF recs[k].ScriptTag # "latn" THEN ScriptLoopNoCheck(recs, k + 1)
    ELSE LET script == recs[k].Script
             lsr == IF script.LangSysRecord = None THEN <<>>
                    ELSE script.LangSysRecord.list
         IN  [recs EXCEPT ![k].Script = AppendIri(script, lsr)]

\* The loop without the break of line 161: it goes on to the next scripts
\* after the record is added.
RECURSIVE ScriptLoopNoBreak(_, _)
ScriptLoopNoBreak(recs, k) ==
    IF k > Len(recs) THEN recs
    ELSE IF recs[k].ScriptTag # "latn" THEN ScriptLoopNoBreak(recs, k + 1)
    ELSE LET script == recs[k].Script
             lsr == IF script.LangSysRecord = None THEN <<>>
                    ELSE script.LangSysRecord.list
         IN  IF InTuple(IRI_TAG, existing_tags(lsr)) THEN recs
             ELSE ScriptLoopNoBreak(
                    [recs EXCEPT ![k].Script = AppendIri(script, lsr)], k + 1)

\* The loop of lines 128-161 from position k of ScriptList.ScriptRecord:
\* scripts with another tag are passed over, and the first "latn" script
\* ends the loop, by return when it holds IRI_TAG and by break after the
\* record is added.
RECURSIVE ScriptLoop(_, _)
ScriptLoop(recs, k) ==
    IF k > Len(recs) THEN recs
    ELSE IF recs[k].ScriptTag # "latn" THEN ScriptLoop(recs, k + 1)
    ELSE LET script == recs[k].Script
             lsr == IF script.LangSysRecord = None THEN <<>>
                    ELSE script.LangSysRecord.list
         IN  IF InTuple(IRI_TAG, existing_tags(lsr)) THEN recs
             ELSE [recs EXCEPT ![k].Script = AppendIri(script, lsr)]

\* _add_gsub_iri_language, on font["GSUB"].table (NoTable when the font
\* holds no GSUB table).
_add_gsub_iri_language(gsub) ==
    IF gsub = NoTable THEN gsub
    ELSE IF gsub.ScriptList = None THEN gsub
    ELSE [gsub EXCEPT !.ScriptList.ScriptRecord = ScriptLoop(@, 1)]

\* The three patches of mark_font_gaelic (lines 172-174) on a document whose
\* name table is present.
Patched(font) ==
    [name |-> _add_irish_name_records(font.name),
     os2 |-> _set_os2_latin_extended_additional(font.os2),
     gsub |-> _add_gsub_iri_language(font.gsub)]

(***************************************************************************)
(* Bounds of the model.                                                    *)
(***************************************************************************)
\* The longest name table of an initial font.
MaxNames == 2

\* The longest script list of an initial font.
MaxScripts == 2

\* The most entries of a directory with several entries.
MaxFiles == 3

\* The number of times process_directory is run on the directory.
MaxRuns == 2

(***************************************************************************)
(* The state.                                                              *)
(***************************************************************************)
VARIABLES
    fs,         \* the directory: filename -> [kind, writable, content]
    pc,         \* where process_directory stands
    listing,    \* sorted(os.listdir(directory)), the list the loop runs over
    idx,        \* the position of the loop in listing
    font,       \* the TTFont of mark_font_gaelic, None outside of it
    open,       \* the filenames whose TTFont is open and not closed
    processed,  \* the list processed
    log,        \* the operations completed on files in this run, in order
    runs,       \* the number of runs of process_directory started
    before      \* the directory as it was when the current run started

vars == <<fs, pc, listing, idx, font, open, processed, log, runs, before>>

\* The content of a file that the font library cannot parse.
Malformed == [malformed |-> TRUE]

\* filename, in the body of the loop of process_directory.
filename == listing[idx]

\* os.path.isfile(filepath)
isfile(name) == fs[name].kind = "file"

\* All orders of the names of a set: what os.listdir may return.
Listings(S) ==
    {l \in [1..Cardinality(S) -> S] : \A n \in S : \E k \in DOMAIN l : l[k] = n}

\* The exception caught in the loop, which goes on with the next entry.
RaiseCaught ==
    /\ pc' = "loop"
    /\ idx' = idx + 1
    /\ font' = None
    /\ open' = open \ {listing[idx]}
    /\ UNCHANGED <<fs, listing, processed, runs, before>>

\* An exception leaves process_directory (and main, which catches nothing):
\* the run ends there.
Raise ==
    /\ pc' = "raised"
    /\ UNCHANGED <<fs, listing, idx, font, open, processed, runs, before>>

(***************************************************************************)
(* process_directory, one action per step of its loop, and mark_font_gaelic*)
(* inside it, one action per call that may raise.                          *)
(***************************************************************************)
\* Lines 189-191: a run starts; the directory is listed and the list sorted.
Start ==
    /\ pc \in {"idle", "returned"}
    /\ runs < MaxRuns
    /\ \E raw \in Listings(DOMAIN fs) : listing' = sorted(raw)
    /\ idx' = 1
    /\ processed' = <<>>
    /\ log' = <<>>
    /\ runs' = runs + 1
    /\ before' = fs
    /\ pc' = "loop"
    /\ UNCHANGED <<fs, font, open>>

\* Lines 192-197: the filter rejects the entry, or it is no regular file.
Skip ==
    /\ pc = "loop"
    /\ idx <= Len(listing)
    /\ ~(should_process_font(filename) /\ isfile(filename))
    /\ idx' = idx + 1
    /\ UNCHANGED <<fs, pc, listing, font, open, processed, log, runs, before>>

\* Lines 199-200 and 170: TTFont(filepath) opens the document.
OpenFont ==
    /\ pc = "loop"
    /\ idx <= Len(listing)
    /\ should_process_font(filename) /\ isfile(filename)
    /\ fs[filename].content # Malformed
    /\ font' = fs[filename].content
    /\ open' = open \cup {filename}
    /\ log' = Append(log, <<"open", filename>>)
    /\ pc' = "opened"
    /\ UNCHANGED <<fs, listing, idx, processed, runs, before>>

\* Line 170: TTFont(filepath) raises on a file that is no font.
OpenFails ==
    /\ pc = "loop"
    /\ idx <= Len(listing)
    /\ should_process_font(filename) /\ isfile(filename)
    /\ fs[filename].content = Malformed
    /\ UNCHANGED log
    /\ Raise

\* Lines 172-174: the three patches.
Patch ==
    /\ pc = "opened"
    /\ font.name # NoTable
    /\ font' = Patched(font)
    /\ log' = Append(log, <<"patch", filename>>)
    /\ pc' = "patched"
    /\ UNCHANGED <<fs, listing, idx, open, processed, runs, before>>

\* Line 74: font["name"] raises KeyError when the font holds no name table.
PatchFails ==
    /\ pc = "opened"
    /\ font.name = NoTable
    /\ UNCHANGED log
    /\ Raise

\* Line 176: font.save(filepath) writes the document over the file.
Save ==
    /\ pc = "patched"
    /\ fs[filename].writable
    /\ fs' = [fs EXCEPT ![filename].content = font]
    /\ log' = Append(log, <<"save", filename>>)
    /\ pc' = "saved"
    /\ UNCHANGED <<listing, idx, font, open, processed, runs, before>>

\* Line 176: font.save(filepath) raises when the file cannot be written.
SaveFails ==
    /\ pc = "patched"
    /\ ~fs[filename].writable
    /\ UNCHANGED log
    /\ Raise

\* Lines 177 and 201: font.close(), mark_font_gaelic returns and the name is
\* recorded.
Close ==
    /\ pc = "saved"
    /\ open' = open \ {filename}
    /\ font' = None
    /\ log' = Append(log, <<"close", filename>>)
    /\ processed' = Append(processed, filename)
    /\ idx' = idx + 1
    /\ pc' = "loop"
    /\ UNCHANGED <<fs, listing, runs, before>>

\* Line 203: the loop is over and processed is returned.
Return ==
    /\ pc = "loop"
    /\ idx > Len(listing)
    /\ pc' = "returned"
    /\ UNCHANGED <<fs, listing, idx, font, open, processed, log, runs, before>>

Next ==
    \/ Start
    \/ Skip
    \/ OpenFont
    \/ OpenFails
    \/ Patch
    \/ PatchFails
    \/ Save
    \/ SaveFails
    \/ Close
    \/ Return

\* The state before the first run, on the directory dir.
InitOn(dir) ==
    /\ fs = dir
    /\ pc = "idle"
    /\ listing = <<>>
    /\ idx = 1
    /\ font = None
    /\ open = {}
    /\ processed = <<>>
    /\ log = <<>>
    /\ runs = 0
    /\ before = dir

(***************************************************************************)
(* The initial directories.                                                *)
(***************************************************************************)
\* All sequences over S of length at most n.
SeqsUpTo(S, n) == UNION {[1..k -> S] : k \in 0..n}

\* Name records: two ids that are copied and one (3) that is not, the
\* Windows/Unicode-BMP pair and the Macintosh/Roman pair, the English-US id
\* and the Irish id, two texts.
NameRecords ==
    [nameID : {1, 2, 3},
     platformID : {PLATFORM_WINDOWS},
     platEncID : {ENCODING_UNICODE_BMP},
     langID : {LANG_ENGLISH_US, IRISH_LANG_ID},
     string : {"Aon", "Bun"}]
    \cup
    [nameID : {1, 2, 3},
     platformID : {1},
     platEncID : {0},
     langID : {LANG_ENGLISH_US, IRISH_LANG_ID},
     string : {"Aon", "Bun"}]

NameTables == {[names |-> n] : n \in SeqsUpTo(NameRecords, MaxNames)}

\* Values of ulUnicodeRange1, an unsigned 32-bit field: bit 29 clear or set,
\* with bits below and above it.  The values stay below 2^31, the integers
\* of the model checker: bit 31 is clear in all of them.
UnicodeRanges ==
    {[ulUnicodeRange1 |-> v] : v \in
    {0, 1, BIT_29_MASK, BIT_29_MASK + 1, 2 * BIT_29_MASK + 3,
     3 * BIT_29_MASK, 2 * BIT_29_MASK + 268435456,
     3 * BIT_29_MASK + (BIT_29_MASK - 1)}}

LangSysOf(req, fi) ==
    [LookupOrder |-> None, ReqFeatureIndex |-> req, FeatureIndex |-> fi,
     FeatureCount |-> IF fi = None THEN 0 ELSE Len(fi.list)]

\* Default language systems of a script: none, features [3, 7] with the
\* required feature 0, and one that holds no feature list.
DefaultLangSyses ==
    {None, LangSysOf(0, List(<<3, 7>>)), LangSysOf(NO_REQ_FEATURE, None)}

LangSysRecordOf(tag) ==
    [LangSysTag |-> tag, LangSys |-> LangSysOf(NO_REQ_FEATURE, List(<<7>>))]

\* The language-system records of a script: none, an empty list, and lists
\* without and with a record for IRI_TAG.
LangSysRecordLists ==
    {None, List(<<>>), List(<<LangSysRecordOf("ENG ")>>),
     List(<<LangSysRecordOf(IRI_TAG)>>),
     List(<<LangSysRecordOf("ENG "), LangSysRecordOf(IRI_TAG)>>)}

ScriptOf(dflt, lsr) ==
    [DefaultLangSys |-> dflt, LangSysRecord |-> lsr,
     LangSysCount |-> IF lsr = None THEN 0 ELSE Len(lsr.list)]

\* Script records: every "latn" script of the lists above, and two scripts
\* with another tag.
ScriptRecords ==
    {[ScriptTag |-> "latn", Script |-> ScriptOf(d, l)] :
        d \in DefaultLangSyses, l \in LangSysRecordLists}
    \cup
    {[ScriptTag |-> "cyrl",
      Script |-> ScriptOf(LangSysOf(0, List(<<3, 7>>)), l)] :
        l \in {None, List(<<LangSysRecordOf(IRI_TAG)>>)}}

GsubTables ==
    {NoTable, [ScriptList |-> None]}
    \cup
    {[ScriptList |-> [ScriptRecord |-> recs]] :
        recs \in SeqsUpTo(ScriptRecords, MaxScripts)}

\* The font of the end-to-end scenario, with one English name.
PlainFont ==
    [name |-> [names |-> << [nameID |-> 1, platformID |-> PLATFORM_WINDOWS,
                             platEncID |-> ENCODING_UNICODE_BMP,
                             langID |-> LANG_ENGLISH_US,
                             string |-> "Aon"] >>],
     os2 |-> [ulUnicodeRange1 |-> 1],
     gsub |-> [ScriptList |-> [ScriptRecord |->
                << [ScriptTag |-> "latn",
                    Script |-> ScriptOf(LangSysOf(0, List(<<3, 7>>)),
                                        None)] >>]]]

\* Fonts that differ from PlainFont in one table, and fonts whose three
\* tables all vary, over name tables of at most one record and script lists
\* of at most one script.
Fonts ==
    {[PlainFont EXCEPT !.name = n] : n \in NameTables}
    \cup {[PlainFont EXCEPT !.os2 = v] : v \in UnicodeRanges \cup {NoTable}}
    \cup {[PlainFont EXCEPT !.gsub = g] : g \in GsubTables}
    \cup [name : {n \in NameTables : Len(n.names) <= 1},
          os2 : UnicodeRanges \cup {NoTable},
          gsub : {g \in GsubTables :
                    \/ g = NoTable
                    \/ g.ScriptList = None
                    \/ Len(g.ScriptList.ScriptRecord) <= 1}]

FontFile(doc) == [kind |-> "file", writable |-> TRUE, content |-> doc]

\* Entries on which a step of the run fails or is skipped: a directory, a
\* file that cannot be written, a file that is no font, a font without a
\* name table.
OddEntries ==
    {[kind |-> "dir", writable |-> TRUE, content |-> None],
     [kind |-> "file", writable |-> FALSE, content |-> PlainFont],
     [kind |-> "file", writable |-> TRUE, content |-> Malformed],
     [kind |-> "file", writable |-> TRUE,
      content |-> [PlainFont EXCEPT !.name = NoTable]]}

\* "a.otf"
AOtf == <<"a", ".", "o", "t", "f">>

\* A directory that holds one file, "a.otf", with any font.
FontDirs == [{AOtf} -> {FontFile(d) : d \in Fonts} \cup OddEntries]

InitFont == \E dir \in FontDirs : InitOn(dir)

\* process_directory, run on a directory that holds one font.
SpecFont == InitFont /\ [][Next]_vars

\* Filenames of a directory with several entries: in the order of sorted,
\* "SF-Pro.otf", "W.woff2", "a.OTF", "a.otf", "a.rtf".
DriverNames ==
    {<<"S", "F", "-", "P", "r", "o", ".", "o", "t", "f">>,
     <<"W", ".", "w", "o", "f", "f", "2">>,
     <<"a", ".", "O", "T", "F">>,
     AOtf,
     <<"a", ".", "r", "t", "f">>}

\* Directories of one to MaxFiles entries, each a plain font or an odd entry.
DriverDirs ==
    UNION {[names -> {FontFile(PlainFont)} \cup OddEntries] :
            names \in {S \in SUBSET DriverNames :
                        Cardinality(S) \in 1..MaxFiles}}

InitDriver == \E dir \in DriverDirs : InitOn(dir)

\* process_directory, run on a directory of several entries.
SpecDriver == InitDriver /\ [][Next]_vars

\* Filenames for the filter: a beginning, a middle and an end, each possibly
\* empty, the empty name left out.
FilterNames ==
    {pre \o mid \o end :
        pre \in {<<>>, <<"S", "F", "-", "P", "r", "o">>,
                 <<"s", "f", "-", "p", "r", "o">>,
                 <<"S", "F", "-", "P", "r">>,
                 <<"a", "S", "F", "-", "P", "r", "o">>,
                 <<".">>,
                 <<"S", "F", "-", "P", "r", "o", ".">>},
        mid \in {<<>>, <<"a">>, <<"-", "T">>},
        end \in {<<>>, <<".", "o", "t", "f">>, <<".", "O", "T", "F">>,
                 <<".", "o", "T", "f">>, <<".", "w", "o", "f", "f", "2">>,
                 <<".", "W", "O", "F", "F", "2">>,
                 <<".", "w", "o", "f", "f">>, <<".", "o", "t", "f", "2">>,
                 <<"o", "t", "f">>, <<".", "o", "t", "f", ".">>,
                 <<".", "t", "o", "f">>, <<".", ".", "o", "t", "f">>,
                 <<".", "o", "t", "f", ".", "a">>,
                 <<".", "a", ".", "o", "t", "f">>,
                 <<".", "r", "t", "f">>}}
    \ {<<>>}

\* A directory that holds one entry, of any of these names.
FilterDirs ==
    UNION {[{n} -> {FontFile(PlainFont)} \cup OddEntries] : n \in FilterNames}

InitFilter == \E dir \in FilterDirs : InitOn(dir)

\* process_directory, run on a directory that holds one entry of any name.
SpecFilter == InitFilter /\ [][Next]_vars

(***************************************************************************)
(* Notions the properties are stated with.                                 *)
(***************************************************************************)
\* The operations of the log that were done on the file n, in order.
OpsOn(n) ==
    LET E == SelectSeq(log, LAMBDA e : e[2] = n)
    IN  [k \in 1..Len(E) |-> E[k][1]]

\* The names of a list l.
Range(l) == {l[k] : k \in 1..Len(l)}

\* An entry that process_directory is to patch: the filter accepts its name
\* and it is a regular file.
Qualifies(n) == should_process_font(n) /\ isfile(n)

\* A step of mark_font_gaelic raises on the file n: it is no font, it has no
\* name table, or it cannot be written.
RaisesOn(n) ==
    \/ fs[n].content = Malformed
    \/ fs[n].content.name = NoTable
    \/ ~fs[n].writable

IsLetter(c) == Ord[c] \in 65..90 \/ Ord[c] \in 97..122

\* Two characters that are equal, or the two cases of one letter.
SameLetter(c, d) ==
    \/ c = d
    \/ /\ IsLetter(c)
       /\ IsLetter(d)
       /\ (Ord[c] - Ord[d] = 32 \/ Ord[d] - Ord[c] = 32)

\* The name n has the extension e, the case of letters apart: n ends with e,
\* and e is preceded by a character that is no dot (a name made of dots and
\* e alone, such as ".otf", has no extension).
HasExtension(n, e) ==
    /\ Len(n) > Len(e)
    /\ \A k \in 1..Len(e) : SameLetter(n[Len(n) - Len(e) + k], e[k])
    /\ \E k \in 1..(Len(n) - Len(e)) : n[k] # "."

\* The name n begins with p.
HasPrefix(n, p) == Len(p) <= Len(n) /\ \A k \in 1..Len(p) : n[k] = p[k]

\* The filenames the spec of the filter accepts.
Accepted(n) ==
    /\ \E i \in 1..Len(FONT_EXTENSIONS) : HasExtension(n, FONT_EXTENSIONS[i])
    /\ \A i \in 1..Len(EXCLUDED_PREFIXES) : ~HasPrefix(n, EXCLUDED_PREFIXES[i])

(***************************************************************************)
(* The filter and the directory loop.                                      *)
(***************************************************************************)
\* C3: should_process_font is true of a filename exactly when its extension,
\* the case of letters apart, is ".otf" or ".woff2" and the name does not
\* begin with "SF-Pro"; it has a value for every name, and the loop opens a
\* file only when its name is one of these.
C3_FilterIff ==
    /\ \A n \in DOMAIN fs :
        /\ should_process_font(n) \in BOOLEAN
        /\ should_process_font(n) <=> Accepted(n)
    /\ \A n \in DOMAIN fs : OpsOn(n) # <<>> => Accepted(n)
    /\ pc \in {"opened", "patched", "saved"} => Accepted(filename)

\* A font is open whose name was accepted for an extension that is not
\* written in lower case.
C3_Witness ==
    /\ pc = "opened"
    /\ Accepted(filename)
    /\ splitext_ext(filename) # lower(splitext_ext(filename))

\* C7: a run that returns has opened, patched, saved and closed exactly the
\* entries that pass the filter and are regular files, each once, in the
\* order of their names, and returns these names in that order; an entry
\* that the filter rejects or that is no regular file is never opened or
\* written and is, at every moment of the run, as it was before the run.
C7_DriverOrder ==
    /\ \A n \in DOMAIN fs : ~Qualifies(n) =>
        /\ fs[n] = before[n]
        /\ OpsOn(n) = <<>>
    /\ pc = "returned" =>
        /\ Range(processed) = {n \in DOMAIN fs : Qualifies(n)}
        /\ \A j, k \in 1..Len(processed) :
            j < k => StrLess(processed[j], processed[k])
        /\ Len(log) = 4 * Len(processed)
        /\ \A k \in 1..Len(processed) :
            /\ log[4 * k - 3] = <<"open", processed[k]>>
            /\ log[4 * k - 2] = <<"patch", processed[k]>>
            /\ log[4 * k - 1] = <<"save", processed[k]>>
            /\ log[4 * k] = <<"close", processed[k]>>

\* A run has returned two names or more, from a directory that also holds an
\* entry the filter rejects.
C7_Witness ==
    /\ pc = "returned"
    /\ Len(processed) >= 2
    /\ \E n \in DOMAIN fs : ~should_process_font(n) /\ isfile(n)

\* C8: at most one font document is open at any time, and a document that was
\* opened is closed when the handling of its file is over, also when the run
\* ends by an exception.
C8_ScopedLifetime ==
    /\ Cardinality(open) <= 1
    /\ pc \in {"idle", "loop", "returned", "raised"} => open = {}

\* C9: when a step raises on a qualifying file the run ends there and does
\* not return: a run never returns from a directory that holds such a file;
\* the files after the failing one have not been opened or changed, the
\* failing one is not in processed and was opened at most once, and the
\* qualifying files before it are in processed, saved as patched.
C9_FailureIsFatal ==
    /\ pc = "returned" => \A n \in DOMAIN fs : Qualifies(n) => ~RaisesOn(n)
    /\ pc = "raised" =>
        /\ ~ENABLED Next
        /\ Qualifies(filename) /\ RaisesOn(filename)
        /\ filename \notin Range(processed)
        /\ OpsOn(filename) \in {<<>>, <<"open">>, <<"open", "patch">>}
        /\ \A k \in (idx + 1)..Len(listing) :
            /\ OpsOn(listing[k]) = <<>>
            /\ fs[listing[k]] = before[listing[k]]
        /\ processed =
            SelectSeq(SubSeq(listing, 1, idx - 1), LAMBDA n : Qualifies(n))
        /\ \A n \in Range(processed) :
            /\ OpsOn(n) = <<"open", "patch", "save", "close">>
            /\ fs[n].content = Patched(before[n].content)

\* A run has ended by an exception after a file was processed, with a
\* qualifying file still to come.
C9_Witness ==
    /\ pc = "raised"
    /\ Len(processed) >= 1
    /\ \E k \in (idx + 1)..Len(listing) : Qualifies(listing[k])

(***************************************************************************)
(* The patches.  For a file n that the current run has processed,          *)
(* before[n].content is the font before mark_font_gaelic and fs[n].content *)
(* the font it saved.                                                      *)
(***************************************************************************)
NamesBefore(n) == before[n].content.name.names

NamesAfter(n) == fs[n].content.name.names

\* An English-US record of the Windows platform, Unicode BMP, with one of
\* the name ids 1, 2, 4, 5, 6.
IsEnglishTarget(rec) ==
    /\ rec.nameID \in {1, 2, 4, 5, 6}
    /\ rec.platformID = 3
    /\ rec.platEncID = 1
    /\ rec.langID = 1033

\* The positions in names of the Irish Windows/Unicode-BMP records of nameID.
IrishAt(names, nameID) ==
    {k \in 1..Len(names) :
        /\ names[k].nameID = nameID
        /\ names[k].platformID = 3
        /\ names[k].platEncID = 1
        /\ names[k].langID = 2108}

\* The position in names of the last English target record of nameID.
LastEnglishAt(names, nameID) ==
    CHOOSE k \in 1..Len(names) :
        /\ IsEnglishTarget(names[k]) /\ names[k].nameID = nameID
        /\ \A j \in (k + 1)..Len(names) :
            ~(IsEnglishTarget(names[j]) /\ names[j].nameID = nameID)

\* C2, as the claim states it: after the patch every English target record
\* that existed before has an Irish record of the same nameID, platformID
\* and encodingID with the text of that English record, whatever the name
\* table held.
C2_IrishTextAlways ==
    \A n \in Range(processed) :
        \A k \in 1..Len(NamesBefore(n)) :
            IsEnglishTarget(NamesBefore(n)[k]) =>
                \E j \in IrishAt(NamesAfter(n), NamesBefore(n)[k].nameID) :
                    NamesAfter(n)[j].string = NamesBefore(n)[k].string

\* C2, amended: for an English target record whose key held no Irish record
\* before, there is after the patch exactly one Irish record of the same
\* nameID, platformID and encodingID, with the text of the English record
\* (of the last one, when several English records share the key); where an
\* Irish record existed under the key, the Irish records of the key are the
\* ones that were there, with the text they had.
C2_IrishTextWhenAbsent ==
    \A n \in Range(processed) :
        \A k \in 1..Len(NamesBefore(n)) :
            IsEnglishTarget(NamesBefore(n)[k]) =>
                LET B == NamesBefore(n)
                    A == NamesAfter(n)
                    id == B[k].nameID
                IN  IF IrishAt(B, id) # {}
                    THEN /\ IrishAt(A, id) = IrishAt(B, id)
                         /\ \A j \in IrishAt(B, id) : A[j] = B[j]
                    ELSE /\ Cardinality(IrishAt(A, id)) = 1
                         /\ \A j \in IrishAt(A, id) :
                              A[j].string = B[LastEnglishAt(B, id)].string

\* A font was processed that held an English target record and no Irish
\* record under its key, beside an Irish record of another platform.
C2_Witness ==
    \E n \in Range(processed) :
        \E k, j \in 1..Len(NamesBefore(n)) :
            /\ IsEnglishTarget(NamesBefore(n)[k])
            /\ IrishAt(NamesBefore(n), NamesBefore(n)[k].nameID) = {}
            /\ NamesBefore(n)[j].langID = 2108
            /\ NamesBefore(n)[j].nameID = NamesBefore(n)[k].nameID

\* C4: every name record present before the patch is present after it, in
\* its place, with the same ids and the same text; the records added come
\* after them, are Irish Windows/Unicode-BMP records, one for a key, under
\* keys that held no record before; the records that are not Irish are the
\* same in number and content.
C4_NamesPreserved ==
    \A n \in Range(processed) :
        LET B == NamesBefore(n)
            A == NamesAfter(n)
            NotIrish(rec) == rec.langID # 2108
        IN  /\ Len(A) >= Len(B)
            /\ \A k \in 1..Len(B) : A[k] = B[k]
            /\ \A k \in (Len(B) + 1)..Len(A) :
                /\ k \in IrishAt(A, A[k].nameID)
                /\ IrishAt(A, A[k].nameID) = {k}
            /\ SelectSeq(A, NotIrish) = SelectSeq(B, NotIrish)

\* A font was processed that held an Irish record under the key of an
\* English target record, with another text.
C4_Witness ==
    \E n \in Range(processed) :
        \E k, j \in 1..Len(NamesBefore(n)) :
            /\ IsEnglishTarget(NamesBefore(n)[k])
            /\ j \in IrishAt(NamesBefore(n), NamesBefore(n)[k].nameID)
            /\ NamesBefore(n)[j].string # NamesBefore(n)[k].string

\* Bit i of the value v.
Bit(v, i) == (v \div (2 ^ i)) % 2 = 1

\* The content of n is a font with an OS/2 table.
HasOS2(dir, n) ==
    /\ dir[n].content \notin {Malformed, None}
    /\ dir[n].content.os2 # NoTable

\* C5: for a font with an OS/2 table, bit 29 of ulUnicodeRange1 is set after
\* the patch and every other bit is as it was, so that the value is the same
\* when bit 29 was set; a font without the table has none after the patch;
\* and a bit 29 that was set when the run started is set at every moment of
\* the run.
C5_Bit29 ==
    /\ \A n \in Range(processed) :
        IF HasOS2(before, n)
        THEN LET b == before[n].content.os2.ulUnicodeRange1
                 a == fs[n].content.os2.ulUnicodeRange1
             IN  /\ \A i \in 0..30 : Bit(a, i) <=> (i = 29 \/ Bit(b, i))
                 /\ Bit(b, 29) => a = b
        ELSE fs[n].content.os2 = NoTable
    /\ \A n \in DOMAIN fs :
        (HasOS2(before, n) /\ Bit(before[n].content.os2.ulUnicodeRange1, 29))
            => (HasOS2(fs, n) /\ Bit(fs[n].content.os2.ulUnicodeRange1, 29))

\* A font was processed whose bit 29 was clear, with a bit set below it and
\* one above it.
C5_Witness ==
    \E n \in Range(processed) :
        /\ HasOS2(before, n)
        /\ ~Bit(before[n].content.os2.ulUnicodeRange1, 29)
        /\ Bit(before[n].content.os2.ulUnicodeRange1, 0)
        /\ Bit(before[n].content.os2.ulUnicodeRange1, 30)

\* The script records of a GSUB table, none when the table or its script
\* list is absent.
ScriptsOf(gsub) ==
    IF gsub = NoTable THEN <<>>
    ELSE IF gsub.ScriptList = None THEN <<>>
    ELSE gsub.ScriptList.ScriptRecord

\* The language-system records of a script, none for None.
RecordsOf(script) ==
    IF script.LangSysRecord = None THEN <<>> ELSE script.LangSysRecord.list

\* The feature indices of a language system, none for None.
FeaturesOf(langsys) ==
    IF langsys.FeatureIndex = None THEN <<>> ELSE langsys.FeatureIndex.list

\* The number of records of the script that are tagged "IRI ".
IriCount(script) ==
    Cardinality({k \in 1..Len(RecordsOf(script)) :
                    RecordsOf(script)[k].LangSysTag = "IRI "})

\* The position of the first script tagged "latn", 0 when there is none.
FirstLatn(recs) ==
    IF \E k \in 1..Len(recs) : recs[k].ScriptTag = "latn"
    THEN CHOOSE k \in 1..Len(recs) :
            /\ recs[k].ScriptTag = "latn"
            /\ \A j \in 1..(k - 1) : recs[j].ScriptTag # "latn"
    ELSE 0

\* The patch is to create a record: there is a "latn" script and the first
\* one holds no record tagged "IRI ".
Creates(gsub) ==
    /\ FirstLatn(ScriptsOf(gsub)) # 0
    /\ IriCount(ScriptsOf(gsub)[FirstLatn(ScriptsOf(gsub))].Script) = 0

GsubBefore(n) == before[n].content.gsub

GsubAfter(n) == fs[n].content.gsub

\* C6: when the patch creates the "IRI " record, the record is the last of
\* the first "latn" script; its required-feature index and its feature
\* indices (order and count) are those the default language system of the
\* script had before the patch, or 0xFFFF and no feature when the script had
\* no default; and LangSysCount is the number of records of the script.
C6_Mirrors ==
    \A n \in Range(processed) :
        Creates(GsubBefore(n)) =>
            LET k == FirstLatn(ScriptsOf(GsubBefore(n)))
                sb == ScriptsOf(GsubBefore(n))[k].Script
                sa == ScriptsOf(GsubAfter(n))[k].Script
                new == RecordsOf(sa)[Len(RecordsOf(sa))]
            IN  /\ Len(RecordsOf(sa)) = Len(RecordsOf(sb)) + 1
                /\ sa.LangSysCount = Len(RecordsOf(sa))
                /\ new.LangSysTag = "IRI "
                /\ new.LangSys.FeatureCount = Len(FeaturesOf(new.LangSys))
                /\ IF sb.DefaultLangSys # None
                   THEN /\ new.LangSys.ReqFeatureIndex
                            = sb.DefaultLangSys.ReqFeatureIndex
                        /\ FeaturesOf(new.LangSys)
                            = FeaturesOf(sb.DefaultLangSys)
                   ELSE /\ new.LangSys.ReqFeatureIndex = 65535
                        /\ FeaturesOf(new.LangSys) = <<>>

\* A font was processed for which the record was created from a default
\* language system with the required feature 0 and the features [3, 7].
C6_Witness ==
    \E n \in Range(processed) :
        /\ Creates(GsubBefore(n))
        /\ LET sb == ScriptsOf(GsubBefore(n))
                        [FirstLatn(ScriptsOf(GsubBefore(n)))].Script
           IN  /\ sb.DefaultLangSys # None
               /\ sb.DefaultLangSys.ReqFeatureIndex = 0
               /\ FeaturesOf(sb.DefaultLangSys) = <<3, 7>>

\* C10: the patch leaves the GSUB table as it was when the table or its
\* script list is absent, when no script is tagged "latn", and when the first
\* "latn" script holds an "IRI " record; otherwise the table has the same
\* scripts, all but the first "latn" script are as they were, and that
\* script has the same default language system and the same records,
\* followed by one record tagged "IRI ".
C10_GsubFrame ==
    \A n \in Range(processed) :
        IF ~Creates(GsubBefore(n))
        THEN GsubAfter(n) = GsubBefore(n)
        ELSE LET B == ScriptsOf(GsubBefore(n))
                 A == ScriptsOf(GsubAfter(n))
                 k == FirstLatn(B)
             IN  /\ Len(A) = Len(B)
                 /\ \A j \in 1..Len(B) : j # k => A[j] = B[j]
                 /\ A[k].ScriptTag = "latn"
                 /\ A[k].Script.DefaultLangSys = B[k].Script.DefaultLangSys
                 /\ Len(RecordsOf(A[k].Script))
                        = Len(RecordsOf(B[k].Script)) + 1
                 /\ SubSeq(RecordsOf(A[k].Script), 1,
                           Len(RecordsOf(B[k].Script)))
                        = RecordsOf(B[k].Script)
                 /\ IriCount(A[k].Script) = 1

\* A font was processed with two "latn" scripts that held no "IRI " record.
C10_Witness ==
    \E n \in Range(processed) :
        /\ Creates(GsubBefore(n))
        /\ \E j \in 1..Len(ScriptsOf(GsubBefore(n))) :
            /\ j # FirstLatn(ScriptsOf(GsubBefore(n)))
            /\ ScriptsOf(GsubBefore(n))[j].ScriptTag = "latn"
            /\ IriCount(ScriptsOf(GsubBefore(n))[j].Script) = 0

\* C1, as the claim states it: a second or later run leaves every file as the
\* first run left it, and a patched font holds exactly one "IRI " record in
\* every script.
C1_OneIriPerScript ==
    /\ runs >= 2 => fs = before
    /\ \A n \in Range(processed) :
        \A k \in 1..Len(ScriptsOf(GsubAfter(n))) :
            IriCount(ScriptsOf(GsubAfter(n))[k].Script) = 1

\* C1, amended: a second or later run leaves every file as the first run
\* left it (the same name records, the same capability bits, no record
\* added); after a run the first "latn" script that held no "IRI " record
\* holds exactly one, and every other script holds as many as before.
C1_Idempotent ==
    /\ runs >= 2 => fs = before
    /\ \A n \in Range(processed) :
        LET B == ScriptsOf(GsubBefore(n))
            A == ScriptsOf(GsubAfter(n))
        IN  /\ Len(A) = Len(B)
            /\ \A k \in 1..Len(B) :
                IriCount(A[k].Script) =
                    IF k = FirstLatn(B) /\ IriCount(B[k].Script) = 0
                    THEN 1
                    ELSE IriCount(B[k].Script)

\* A second run has processed a font that the first run had patched: it
\* holds an Irish name record, bit 29 and an "IRI " record in its first
\* "latn" script.
C1_Witness ==
    /\ runs = 2
    /\ \E n \in Range(processed) :
        /\ IrishAt(NamesAfter(n), 1) # {}
        /\ HasOS2(fs, n)
        /\ Bit(fs[n].content.os2.ulUnicodeRange1, 29)
        /\ FirstLatn(ScriptsOf(GsubAfter(n))) # 0
        /\ IriCount(ScriptsOf(GsubAfter(n))
                        [FirstLatn(ScriptsOf(GsubAfter(n)))].Script) = 1

====
